---- MODULE Spec2Model ----
(***************************************************************************)
(* Model of the load-test email report builder (src/build_email.py,        *)
(* src/utils.py) and of the SMTP mailer (src/send_email.py).               *)
(*                                                                         *)
(* A data frame is a record [columns, rows]: columns is the header row, a  *)
(* sequence of column names, and rows is a sequence of rows, each a        *)
(* sequence of cells aligned with columns.  Cells of the load, slow and    *)
(* comparison frames are strings (the text of the CSV cell), a missing      *)
(* cell is NaN.  Cells of the error frame are integers.                    *)
(***************************************************************************)
EXTENDS Integers, Sequences, FiniteSets, TLC

VARIABLES
    pc,               \* position of main() in build_email.py
    env,              \* process environment: name -> <<>> (unset) or <<value>>
    files,            \* names of the files that exist on disk
    disk,             \* content of each CSV file of DATA_DIR
    load_df, comp_df, slow_df, err_df,
    scenarios_table, load_heading, load_table, top_slow_table,
    comp_heading, comp_table, observations,
    html_body,        \* the rendered document (main) / the argument of send_email_html
    out_file,         \* content of OUTPUT_HTML, <<>> while not written
    raised,           \* the exception that ended main() or send_email_html, "" if none
    mpc,              \* position of send_email_html in send_email.py
    attachments,      \* the attachments argument of send_email_html
    msg,              \* the MIME message built by send_email_html
    smtp_log          \* what the SMTP session has done so far, in order

vars == <<pc, env, files, disk, load_df, comp_df, slow_df, err_df,
          scenarios_table, load_heading, load_table, top_slow_table,
          comp_heading, comp_table, observations, html_body, out_file, raised,
          mpc, attachments, msg, smtp_log>>

mailVars == <<mpc, attachments, msg, smtp_log>>
frameVars == <<load_df, comp_df, slow_df, err_df>>
fragmentVars == <<scenarios_table, load_heading, load_table, top_slow_table,
                  comp_heading, comp_table, observations>>

(***************************************************************************)
(* Bounds of the model.                                                    *)
(***************************************************************************)
MaxLoadRows == 3
MaxBigRows == 52
MaxTableRows == 2
MaxErrRows == 2

Min(a, b) == IF a < b THEN a ELSE b

RECURSIVE SeqsUpTo(_, _)
SeqsUpTo(S, n) ==
    IF n = 0 THEN {<<>>}
    ELSE LET shorter == SeqsUpTo(S, n - 1)
         IN shorter \cup {Append(s, x) : s \in {t \in shorter : Len(t) = n - 1}, x \in S}

(***************************************************************************)
(* pandas primitives used by the builders.                                 *)
(***************************************************************************)
NaN == "NaN"
isna(v) == v = NaN

EmptyFrame == [columns |-> <<>>, rows |-> <<>>]

\* DataFrame.empty: any axis of length 0
empty(df) == Len(df.columns) = 0 \/ Len(df.rows) = 0

HasCol(df, c) == \E i \in 1..Len(df.columns) : df.columns[i] = c

ColIndex(df, c) == CHOOSE i \in 1..Len(df.columns) : df.columns[i] = c

\* df[c] for row i
Cell(df, i, c) == df.rows[i][ColIndex(df, c)]

\* df[keep]
Project(df, keep) ==
    [columns |-> keep,
     rows |-> [i \in 1..Len(df.rows) |->
                 [j \in 1..Len(keep) |-> Cell(df, i, keep[j])]]]

\* df.rename(columns=m): m is a function from old names to new names
Rename(df, m) ==
    [columns |-> [j \in 1..Len(df.columns) |->
                    IF df.columns[j] \in DOMAIN m THEN m[df.columns[j]]
                    ELSE df.columns[j]],
     rows |-> df.rows]

\* df.head(n)
HeadRows(df, n) ==
    [columns |-> df.columns, rows |-> SubSeq(df.rows, 1, Min(n, Len(df.rows)))]

\* str(v) of a cell: the cell text itself, "nan" for a missing cell
str(v) == IF isna(v) THEN "nan" ELSE v

\* str.lower() on the cell texts of the model
lower(s) ==
    CASE s = "Total" -> "total"
      [] s = "TOTAL" -> "total"
      [] s = "A" -> "a"
      [] s = "B" -> "b"
      [] OTHER -> s

\* html.escape on the cell texts of the model
escape(s) ==
    CASE s = "<b>" -> "&lt;b&gt;"
      [] s = "a&b" -> "a&amp;b"
      [] OTHER -> s

(***************************************************************************)
(* src/utils.py                                                            *)
(***************************************************************************)
\* a fragment given as literal HTML text
Literal(text) == [kind |-> "html", text |-> text]

Placeholder(text) == Literal("<p><em>" \o text \o "</em></p>")

NoDataAvailable == Placeholder("No data available.")

\* the serializer with missing cells rendered by str()
df_to_html_table_str(df, header) ==
    IF empty(df) THEN NoDataAvailable
    ELSE [kind |-> "table",
          head |-> IF header
                   THEN [j \in 1..Len(df.columns) |-> escape(df.columns[j])]
                   ELSE <<>>,
          body |-> [i \in 1..Len(df.rows) |->
                      [j \in 1..Len(df.rows[i]) |-> escape(str(df.rows[i][j]))]]]

df_to_html_table(df, header) ==
    IF empty(df) THEN NoDataAvailable
    ELSE [kind |-> "table",
          head |-> IF header
                   THEN [j \in 1..Len(df.columns) |-> escape(df.columns[j])]
                   ELSE <<>>,
          body |-> [i \in 1..Len(df.rows) |->
                      [j \in 1..Len(df.rows[i]) |->
                         escape(IF isna(df.rows[i][j]) THEN "" ELSE df.rows[i][j])]]]

TopN == 50

\* clamp_top that keeps every row
clamp_top_all(df, n) == df

clamp_top(df, n) == IF empty(df) THEN df ELSE HeadRows(df, n)

(***************************************************************************)
(* src/build_email.py: configuration and loader                            *)
(***************************************************************************)
getenv(e, name, default) == IF e[name] = <<>> THEN default ELSE e[name][1]

\* EXECUTED_USERS with the environment ignored
EXECUTED_USERS_literal == "5,000"

EXECUTED_USERS == getenv(env, "EXECUTED_USERS", "5,000")

InputFiles == <<"load_test_results.csv", "ComparisonReport.csv",
                "TopSlowTransactions.csv", "ErrorDetails.csv">>

TEMPLATE_PATH == "src/email_template.html"

\* pd.read_csv(p): the frame of the file, or FileNotFoundError
pd_read_csv(path) ==
    IF path \in files THEN [exc |-> "", df |-> disk[path]]
    ELSE [exc |-> "FileNotFoundError", df |-> EmptyFrame]

\* read_csv_safe without the existence check
read_csv_unchecked(path) == pd_read_csv(path)

read_csv_safe(path) ==
    IF path \notin files THEN [exc |-> "", df |-> EmptyFrame]
    ELSE pd_read_csv(path)

(***************************************************************************)
(* build_scenarios_table                                                   *)
(***************************************************************************)
ScriptAliases == <<"Script Name", "Script_Name", "script", "Scenario">>
PortalAliases == <<"Portal">>
VolumeAliases == <<"Achieved Volume", "Achieved_Volume", "achieved">>
UsersAliases == <<"User distribution", "User_distribution", "users">>

\* pick(cols): the first alias that is a column of df, as a sequence of
\* length 1, or <<>> where the code returns None
RECURSIVE pick(_, _)
pick(df, cols) ==
    IF cols = <<>> THEN <<>>
    ELSE IF HasCol(df, Head(cols)) THEN <<Head(cols)>>
    ELSE pick(df, Tail(cols))

IsTotalCell(v) == lower(str(v)) = "total"

\* total_mask without the lower-casing
total_mask_case_sensitive(df, scriptCol, r) ==
    str(df.rows[r][ColIndex(df, scriptCol)]) = "total"

\* df[cols["Script Name"]].astype(str).str.lower() == "total", for row r
total_mask(df, scriptCol, r) == IsTotalCell(df.rows[r][ColIndex(df, scriptCol)])

\* pd.concat([df[~total_mask], total_df], ignore_index=True)
TotalsLast(df, scriptCol) ==
    LET idx == 1..Len(df.rows)
        rest == SelectSeq([i \in idx |-> i], LAMBDA i : ~total_mask(df, scriptCol, i))
        tot == SelectSeq([i \in idx |-> i], LAMBDA i : total_mask(df, scriptCol, i))
        order == rest \o tot
    IN [columns |-> df.columns, rows |-> [k \in idx |-> df.rows[order[k]]]]

ScenariosNotAvailable == Placeholder("Scenarios not available (column mismatch).")

build_scenarios_table(df0) ==
    LET script == pick(df0, ScriptAliases)
        portal == pick(df0, PortalAliases)
        volume == pick(df0, VolumeAliases)
        users == pick(df0, UsersAliases)
        keep_cols == script \o portal \o volume \o users
        canon == (IF script = <<>> THEN <<>> ELSE <<"Script Name">>)
                 \o (IF portal = <<>> THEN <<>> ELSE <<"Portal">>)
                 \o (IF volume = <<>> THEN <<>> ELSE <<"Achieved Volume">>)
                 \o (IF users = <<>> THEN <<>> ELSE <<"User distribution">>)
        df == Project(df0, keep_cols)
        ordered == IF script # <<>> THEN TotalsLast(df, script[1]) ELSE df
        renamed == [columns |-> canon, rows |-> ordered.rows]
    IN IF keep_cols = <<>> THEN ScenariosNotAvailable
       ELSE df_to_html_table(renamed, TRUE)

(***************************************************************************)
(* pd.to_datetime(errors="coerce"), sort_values(ascending=False), .head(2) *)
(***************************************************************************)
NaT == "NaT"

\* pd.to_datetime(v, errors="coerce") as the text of the Timestamp it yields
to_datetime(v) ==
    CASE v = "2026-01-01" -> "2026-01-01 00:00:00"
      [] v = "2026-02-01" -> "2026-02-01 00:00:00"
      [] v = "2026-03-01" -> "2026-03-01 00:00:00"
      [] OTHER -> NaT

\* position of a Timestamp on the time line
TsOrd(ts) ==
    CASE ts = "2026-01-01 00:00:00" -> 1
      [] ts = "2026-02-01 00:00:00" -> 2
      [] ts = "2026-03-01 00:00:00" -> 3
      [] OTHER -> 0

\* df[c] = pd.to_datetime(df[c], errors="coerce")
ParseTimeCol(df, c) ==
    [columns |-> df.columns,
     rows |-> [i \in 1..Len(df.rows) |->
                 [j \in 1..Len(df.columns) |->
                    IF j = ColIndex(df, c) THEN to_datetime(df.rows[i][j])
                    ELSE df.rows[i][j]]]]

Perms(n) == {p \in [1..n -> 1..n] : \A i, j \in 1..n : i # j => p[i] # p[j]}

\* sort_values with ascending=True
SortOrdersAsc(df, c) ==
    LET n == Len(df.rows)
        t(i) == Cell(df, i, c)
    IN {p \in Perms(n) :
          \A a, b \in 1..n : a < b =>
             /\ t(p[a]) = NaT => t(p[b]) = NaT
             /\ (t(p[a]) # NaT /\ t(p[b]) # NaT) => TsOrd(t(p[a])) <= TsOrd(t(p[b]))
             /\ (t(p[a]) = NaT /\ t(p[b]) = NaT) => p[a] < p[b]}

\* The row orders sort_values(c, ascending=False) can produce on a frame
\* whose column c holds Timestamps: decreasing time, NaT rows last in their
\* original order (na_position="last").  The default sort kind is not
\* stable, so rows of equal time come in any order.
SortOrdersDesc(df, c) ==
    LET n == Len(df.rows)
        t(i) == Cell(df, i, c)
    IN {p \in Perms(n) :
          \A a, b \in 1..n : a < b =>
             /\ t(p[a]) = NaT => t(p[b]) = NaT
             /\ (t(p[a]) # NaT /\ t(p[b]) # NaT) => TsOrd(t(p[a])) >= TsOrd(t(p[b]))
             /\ (t(p[a]) = NaT /\ t(p[b]) = NaT) => p[a] < p[b]}

Reorder(df, p) ==
    [columns |-> df.columns, rows |-> [k \in 1..Len(df.rows) |-> df.rows[p[k]]]]

IdentityOrder(df) == [k \in 1..Len(df.rows) |-> k]

(***************************************************************************)
(* build_load_summary                                                      *)
(***************************************************************************)
LoadRenameMap ==
    [c \in {"Run ID", "Run Name", "Start", "End"} |->
        CASE c = "Run ID" -> "RunID"
          [] c = "Run Name" -> "RunName"
          [] c = "Start" -> "StartTime"
          [] c = "End" -> "EndTime"]

metric_order == <<"Total Vusers", "Average Throughput (B/s)", "Total Hits",
                  "Average Hits/sec", "Passed Ratio", "Total Transactions",
                  "Total Average Response Time (Sec)", "Achieved Volumes">>

NoLoadSummary == Placeholder("No load test summary.")

\* the orders in which build_load_summary may see the rows of the renamed frame
LoadSummaryOrders(df0) ==
    LET df == Rename(df0, LoadRenameMap)
    IN IF empty(df0) THEN {<<>>}
       ELSE IF HasCol(df, "EndTime")
       THEN SortOrdersDesc(ParseTimeCol(df, "EndTime"), "EndTime")
       ELSE {IdentityOrder(df)}

\* two = df_sorted.head(2) without the duplication of a single row
TwoRows_no_duplicate(df_sorted) == HeadRows(df_sorted, 2)

\* two = df_sorted.head(2); a single row is duplicated to fill both slots
TwoRows(df_sorted) ==
    LET two == HeadRows(df_sorted, 2)
    IN IF Len(two.rows) < 2
       THEN HeadRows([columns |-> two.columns, rows |-> two.rows \o two.rows], 2)
       ELSE two

\* row.get(c, default), formatted by the f-string
RowGet(df, r, c, default) == IF HasCol(df, c) THEN str(Cell(df, r, c)) ELSE default

name_and_time(df, r) ==
    RowGet(df, r, "RunName", "Run") \o " - " \o RowGet(df, r, "StartTime", "")
        \o " - " \o RowGet(df, r, "EndTime", "")

\* build_load_summary with the rows sorted into order p; two.loc[1] of a
\* one-row frame raises KeyError
build_load_summary(df0, p) ==
    IF empty(df0)
    THEN [heading |-> NoLoadSummary, table |-> Literal(""), raised |-> ""]
    ELSE
    LET df == Rename(df0, LoadRenameMap)
        df_sorted == IF HasCol(df, "EndTime")
                     THEN Reorder(ParseTimeCol(df, "EndTime"), p)
                     ELSE df
        two == TwoRows(df_sorted)
    IN IF Len(two.rows) < 2
       THEN [heading |-> Literal(""), table |-> Literal(""), raised |-> "KeyError"]
       ELSE [heading |->
               [kind |-> "heading",
                r1 |-> RowGet(two, 1, "RunID", "Run A"),
                r2 |-> RowGet(two, 2, "RunID", "Run B"),
                line1 |-> name_and_time(two, 1),
                line2 |-> name_and_time(two, 2)],
             table |->
               [kind |-> "metrics",
                rows |-> [k \in 1..Len(metric_order) |->
                            [metric |-> metric_order[k],
                             v1 |-> RowGet(two, 1, metric_order[k], ""),
                             v2 |-> RowGet(two, 2, metric_order[k], "")]]],
             raised |-> ""]

(***************************************************************************)
(* build_top_slow_table, build_comparison_tables                           *)
(***************************************************************************)
SlowWanted == <<"Transaction Names", "Average (Sec)", "90 Percent (Sec)",
                "95 Percent (Sec)", "99 Percent (Sec)">>

\* [c for c in wanted if c in df.columns]
Present(df, wanted) == SelectSeq(wanted, LAMBDA c : HasCol(df, c))

NoHighResponseTime == Placeholder("No high response time details.")

build_top_slow_table(df0) ==
    LET present == Present(df0, SlowWanted)
    IN IF present = <<>> THEN NoHighResponseTime
       ELSE df_to_html_table(clamp_top(Project(df0, present), TopN), TRUE)

CompExpected == <<"Transaction Names",
                  "Average (Sec)_A", "90 Percent (Sec)_A", "95 Percent (Sec)_A",
                  "99 Percent (Sec)_A",
                  "Average (Sec)_B", "90 Percent (Sec)_B", "95 Percent (Sec)_B",
                  "99 Percent (Sec)_B",
                  "Deviation", "Deviation %">>

CompSuffixed == {"Average (Sec)_A", "90 Percent (Sec)_A", "95 Percent (Sec)_A",
                 "99 Percent (Sec)_A", "Average (Sec)_B", "90 Percent (Sec)_B",
                 "95 Percent (Sec)_B", "99 Percent (Sec)_B"}

\* the display name of a comparison column: the _A / _B suffix removed
CompRenameMap ==
    [c \in CompSuffixed |->
        CASE c \in {"Average (Sec)_A", "Average (Sec)_B"} -> "Average (Sec)"
          [] c \in {"90 Percent (Sec)_A", "90 Percent (Sec)_B"} -> "90 Percent (Sec)"
          [] c \in {"95 Percent (Sec)_A", "95 Percent (Sec)_B"} -> "95 Percent (Sec)"
          [] c \in {"99 Percent (Sec)_A", "99 Percent (Sec)_B"} -> "99 Percent (Sec)"]

NoComparisonData == Placeholder("No comparison data.")

CompHeading ==
    [kind |-> "heading",
     h1 |-> getenv(env, "COMP_HEADING_LEFT",
                   "MP_1.1_5K_Users_LoadTest_05022026 - 05/02/2026 02:05:27 - 05/02/2026 11:39:26 EST"),
     h2 |-> getenv(env, "COMP_HEADING_RIGHT",
                   "MP_1.1_5K_LoadTest_18022026 - 18/02/2026 03:08:02 AM - 18/02/2026 01:58:24 PM EST")]

build_comparison_tables(df0) ==
    IF empty(df0) THEN [heading |-> NoComparisonData, table |-> Literal("")]
    ELSE LET present == Present(df0, CompExpected)
             df == clamp_top(Project(df0, present), TopN)
         IN [heading |-> CompHeading,
             table |-> df_to_html_table(Rename(df, CompRenameMap), TRUE)]

(***************************************************************************)
(* build_observations                                                      *)
(***************************************************************************)
\* pd.to_numeric(v, errors="coerce"): <<n>> with n the number in tenths, or
\* <<>> for NaN (a missing cell, text that is no number, or None)
to_numeric(v) ==
    CASE v = "1.5" -> <<15>>
      [] v = "2.0" -> <<20>>
      [] v = "3.5" -> <<35>>
      [] OTHER -> <<>>

ResponseTimeCol == "Total Average Response Time (Sec)"

DegradedSentence ==
    [kind |-> "degraded",
     text |-> "Response times degraded compared to the previous 5,000-user load test."]

ErrorSentence(users, http_500, http_422) ==
    [kind |-> "errors",
     text |-> "During the " \o users \o " load test, we observed "
              \o ToString(http_500) \o " (500) and " \o ToString(http_422)
              \o " (422) errors."]

FallbackSentence ==
    [kind |-> "fallback",
     text |-> "Attached is the comparison report summarizing the last two tests with 5k users each."]

ObsRenameMap == [c \in {"End"} |-> "EndTime"]

\* the orders in which the degradation check may see the rows
ObservationOrders(df0) ==
    LET df == Rename(df0, ObsRenameMap)
    IN IF HasCol(df, "EndTime")
       THEN SortOrdersDesc(ParseTimeCol(df, "EndTime"), "EndTime")
       ELSE {<<>>}

\* df.iloc[r].get(c): the cell, or None (NaN once through to_numeric)
IlocGet(df, r, c) == IF HasCol(df, c) THEN Cell(df, r, c) ELSE NaN

\* the degradation check with >= for >
DegradationObs_ge(df0, p) ==
    LET df == Rename(df0, ObsRenameMap)
    IN IF ~HasCol(df, "EndTime") THEN <<>>
       ELSE LET two == HeadRows(Reorder(ParseTimeCol(df, "EndTime"), p), 2)
            IN IF Len(two.rows) # 2 THEN <<>>
               ELSE LET cur == to_numeric(IlocGet(two, 1, ResponseTimeCol))
                        prev == to_numeric(IlocGet(two, 2, ResponseTimeCol))
                    IN IF cur # <<>> /\ prev # <<>> /\ cur[1] >= prev[1]
                       THEN <<DegradedSentence>>
                       ELSE <<>>

\* the first try block: df["EndTime"] of a frame without that column raises
\* KeyError, which the except clause swallows
DegradationObs(df0, p) ==
    LET df == Rename(df0, ObsRenameMap)
    IN IF ~HasCol(df, "EndTime") THEN <<>>
       ELSE LET two == HeadRows(Reorder(ParseTimeCol(df, "EndTime"), p), 2)
            IN IF Len(two.rows) # 2 THEN <<>>
               ELSE LET cur == to_numeric(IlocGet(two, 1, ResponseTimeCol))
                        prev == to_numeric(IlocGet(two, 2, ResponseTimeCol))
                    IN IF cur # <<>> /\ prev # <<>> /\ cur[1] > prev[1]
                       THEN <<DegradedSentence>>
                       ELSE <<>>

\* error_df.groupby(code_col)[cnt_col].sum().to_dict().get(code, 0)
RECURSIVE SumCount(_, _, _)
SumCount(df, code, r) ==
    IF r = 0 THEN 0
    ELSE SumCount(df, code, r - 1)
         + (IF Cell(df, r, "StatusCode") = code THEN Cell(df, r, "Count") ELSE 0)

ErrorObs(df, users) ==
    IF empty(df) \/ ~HasCol(df, "StatusCode") \/ ~HasCol(df, "Count") THEN <<>>
    ELSE LET http_500 == SumCount(df, 500, Len(df.rows))
             http_422 == SumCount(df, 422, Len(df.rows))
         IN IF http_500 # 0 \/ http_422 # 0
            THEN <<ErrorSentence(users, http_500, http_422)>>
            ELSE <<>>

\* the fallback appended whenever no sentence is the fallback
WithFallback_unless_mentioned(obs) ==
    IF \A k \in 1..Len(obs) : obs[k].kind # "fallback"
    THEN Append(obs, FallbackSentence) ELSE obs

\* the fallback is appended when nothing was detected
WithFallback(obs) == IF obs = <<>> THEN <<FallbackSentence>> ELSE obs

build_observations(ldf, edf, p, users) ==
    WithFallback(DegradationObs(ldf, p) \o ErrorObs(edf, users))

(***************************************************************************)
(* main(): one action per statement                                        *)
(***************************************************************************)
Unset == [kind |-> "unset"]

MakeDirs ==
    /\ pc = "makedirs"
    /\ pc' = "read"
    /\ UNCHANGED <<env, files, disk, frameVars, fragmentVars, html_body, out_file,
                   raised, mailVars>>

\* the four read_csv_safe calls; an exception of a read ends main()
ReadInputs ==
    /\ pc = "read"
    /\ LET l == read_csv_safe("load_test_results.csv")
           c == read_csv_safe("ComparisonReport.csv")
           w == read_csv_safe("TopSlowTransactions.csv")
           e == read_csv_safe("ErrorDetails.csv")
           excs == SelectSeq(<<l.exc, c.exc, w.exc, e.exc>>, LAMBDA x : x # "")
       IN IF excs = <<>>
          THEN /\ load_df' = l.df
               /\ comp_df' = c.df
               /\ slow_df' = w.df
               /\ err_df' = e.df
               /\ pc' = "scenarios"
               /\ UNCHANGED raised
          ELSE /\ raised' = excs[1]
               /\ pc' = "failed"
               /\ UNCHANGED frameVars
    /\ UNCHANGED <<env, files, disk, fragmentVars, html_body, out_file, mailVars>>

BuildScenarios ==
    /\ pc = "scenarios"
    /\ scenarios_table' = build_scenarios_table(load_df)
    /\ pc' = "load_summary"
    /\ UNCHANGED <<env, files, disk, frameVars, load_heading, load_table,
                   top_slow_table, comp_heading, comp_table, observations,
                   html_body, out_file, raised, mailVars>>

BuildLoadSummary ==
    /\ pc = "load_summary"
    /\ \E p \in LoadSummaryOrders(load_df) :
         LET r == build_load_summary(load_df, p)
         IN /\ load_heading' = r.heading
            /\ load_table' = r.table
            /\ raised' = r.raised
            /\ pc' = IF r.raised = "" THEN "top_slow" ELSE "failed"
    /\ UNCHANGED <<env, files, disk, frameVars, scenarios_table, top_slow_table,
                   comp_heading, comp_table, observations, html_body, out_file,
                   mailVars>>

BuildTopSlow ==
    /\ pc = "top_slow"
    /\ top_slow_table' = build_top_slow_table(slow_df)
    /\ pc' = "comparison"
    /\ UNCHANGED <<env, files, disk, frameVars, scenarios_table, load_heading,
                   load_table, comp_heading, comp_table, observations, html_body,
                   out_file, raised, mailVars>>

BuildComparison ==
    /\ pc = "comparison"
    /\ LET r == build_comparison_tables(comp_df)
       IN /\ comp_heading' = r.heading
          /\ comp_table' = r.table
    /\ pc' = "observations"
    /\ UNCHANGED <<env, files, disk, frameVars, scenarios_table, load_heading,
                   load_table, top_slow_table, observations, html_body, out_file,
                   raised, mailVars>>

BuildObservations ==
    /\ pc = "observations"
    /\ \E p \in ObservationOrders(load_df) :
         observations' = build_observations(load_df, err_df, p, EXECUTED_USERS)
    /\ pc' = "render"
    /\ UNCHANGED <<env, files, disk, frameVars, scenarios_table, load_heading,
                   load_table, top_slow_table, comp_heading, comp_table, html_body,
                   out_file, raised, mailVars>>

\* tmpl.render(...): the bindings handed to the template
Bindings ==
    [executed_users |-> EXECUTED_USERS,
     scenarios_table |-> scenarios_table,
     load_test_summary_heading_row |-> load_heading,
     load_test_summary_tables |-> load_table,
     defect_sheet_name |-> getenv(env, "DEFECT_SHEET_NAME", "NY_MECM_Performance_issues.xlsx"),
     top_slow_table |-> top_slow_table,
     comparison_heading_row |-> comp_heading,
     comparison_tables |-> comp_table,
     observations |-> observations,
     sender_name |-> getenv(env, "SENDER_NAME", "Rajesh Dasari")]

\* open(TEMPLATE_PATH) raises when the template is missing; otherwise render
Render ==
    /\ pc = "render"
    /\ IF TEMPLATE_PATH \in files
       THEN /\ html_body' = Bindings
            /\ pc' = "write"
            /\ UNCHANGED raised
       ELSE /\ raised' = "FileNotFoundError"
            /\ pc' = "failed"
            /\ UNCHANGED html_body
    /\ UNCHANGED <<env, files, disk, frameVars, fragmentVars, out_file, mailVars>>

WriteOutput ==
    /\ pc = "write"
    /\ out_file' = <<html_body>>
    /\ pc' = "done"
    /\ UNCHANGED <<env, files, disk, frameVars, fragmentVars, html_body, raised,
                   mailVars>>

Next ==
    \/ MakeDirs
    \/ ReadInputs
    \/ BuildScenarios
    \/ BuildLoadSummary
    \/ BuildTopSlow
    \/ BuildComparison
    \/ BuildObservations
    \/ Render
    \/ WriteOutput

(***************************************************************************)
(* send_email_html (src/send_email.py)                                     *)
(***************************************************************************)
\* e.strip() on the address texts of the model
strip(s) ==
    CASE s = " " -> ""
      [] s = " b@y.org" -> "b@y.org"
      [] OTHER -> s

\* [e.strip() for e in os.getenv(name, "").split(",") if e.strip()]: the
\* value of a list variable is the sequence of its comma-separated pieces,
\* and "".split(",") is [""]
AddressList(e, name) ==
    LET pieces == getenv(e, name, <<"">>)
        stripped == [k \in 1..Len(pieces) |-> strip(pieces[k])]
    IN SelectSeq(stripped, LAMBDA a : a # "")

\* int(os.getenv("SMTP_PORT", "587")): <<port>>, or <<>> where int() raises
smtp_port(e) ==
    LET v == getenv(e, "SMTP_PORT", "587")
    IN CASE v = "587" -> <<587>>
         [] v = "2525" -> <<2525>>
         [] OTHER -> <<>>

\* truth value of os.getenv(name): None and "" are false
Truthy(e, name) == e[name] # <<>> /\ e[name][1] # ""

\* the check without the recipients
required_ok_no_recipient(e) ==
    /\ Truthy(e, "SMTP_SERVER")
    /\ Truthy(e, "SMTP_USERNAME")
    /\ Truthy(e, "SMTP_PASSWORD")

\* smtp_server and smtp_username and smtp_password and email_to
required_ok(e) ==
    /\ Truthy(e, "SMTP_SERVER")
    /\ Truthy(e, "SMTP_USERNAME")
    /\ Truthy(e, "SMTP_PASSWORD")
    /\ AddressList(e, "EMAIL_TO") # <<>>

NoMessage == [kind |-> "none"]

\* lines 8-19: read the configuration, raise when a required value is absent
ReadConfig ==
    /\ mpc = "start"
    /\ IF smtp_port(env) = <<>>
       THEN /\ raised' = "ValueError"
            /\ mpc' = "error"
       ELSE IF ~required_ok(env)
       THEN /\ raised' = "RuntimeError"
            /\ mpc' = "error"
       ELSE /\ mpc' = "build"
            /\ UNCHANGED raised
    /\ UNCHANGED <<pc, env, files, disk, frameVars, fragmentVars, html_body,
                   out_file, attachments, msg, smtp_log>>

\* lines 21-47: the multipart message, with every attachment that exists
BuildMessage ==
    /\ mpc = "build"
    /\ msg' = [kind |-> "mixed",
               From |-> getenv(env, "EMAIL_FROM", getenv(env, "SMTP_USERNAME", "")),
               To |-> AddressList(env, "EMAIL_TO"),
               Cc |-> AddressList(env, "EMAIL_CC"),
               Subject |-> getenv(env, "EMAIL_SUBJECT", "Member Portal Load Test Summary"),
               plain |-> "Please view this email in an HTML-capable client.",
               html |-> html_body,
               attached |-> SelectSeq(attachments, LAMBDA a : a \in files)]
    /\ mpc' = "connect"
    /\ UNCHANGED <<pc, env, files, disk, frameVars, fragmentVars, html_body,
                   out_file, raised, attachments, smtp_log>>

\* a step of the SMTP session: it succeeds, or it raises and the with
\* statement closes the session
SessionStep(at, op, next, opened) ==
    /\ mpc = at
    /\ \E ok \in BOOLEAN :
         IF ok
         THEN /\ smtp_log' = Append(smtp_log, op)
              /\ mpc' = next
              /\ UNCHANGED raised
         ELSE /\ smtp_log' = IF opened THEN Append(smtp_log, "close") ELSE smtp_log
              /\ raised' = "SMTPException"
              /\ mpc' = "error"
    /\ UNCHANGED <<pc, env, files, disk, frameVars, fragmentVars, html_body,
                   out_file, attachments, msg>>

\* line 50: smtplib.SMTP(smtp_server, smtp_port)
Connect == SessionStep("connect", "connect", "starttls", FALSE)

\* line 51: server.starttls(context=context)
StartTls == SessionStep("starttls", "starttls", "login", TRUE)

\* line 52: server.login(smtp_username, smtp_password)
Login == SessionStep("login", "login", "sendmail", TRUE)

\* line 53: server.sendmail(email_from, email_to + email_cc, msg.as_string())
Sendmail == SessionStep("sendmail", "sendmail", "quit", TRUE)

\* the end of the with block, then the confirmation line
Quit ==
    /\ mpc = "quit"
    /\ smtp_log' = Append(smtp_log, "quit")
    /\ mpc' = "done"
    /\ UNCHANGED <<pc, env, files, disk, frameVars, fragmentVars, html_body,
                   out_file, raised, attachments, msg>>

NextSend ==
    \/ ReadConfig
    \/ BuildMessage
    \/ Connect
    \/ StartTls
    \/ Login
    \/ Sendmail
    \/ Quit

(***************************************************************************)
(* Inputs                                                                  *)
(***************************************************************************)
EnvNames == {"EXECUTED_USERS", "DEFECT_SHEET_NAME", "SENDER_NAME",
             "COMP_HEADING_LEFT", "COMP_HEADING_RIGHT",
             "SMTP_SERVER", "SMTP_PORT", "SMTP_USERNAME", "SMTP_PASSWORD",
             "EMAIL_FROM", "EMAIL_TO", "EMAIL_CC", "EMAIL_SUBJECT"}

EnvUnset == [n \in EnvNames |-> <<>>]

InputFileSet == {InputFiles[k] : k \in 1..Len(InputFiles)}

\* the rows over the cell domains doms (one set of cells per column)
RowsOver(doms) ==
    {r \in [1..Len(doms) -> UNION {doms[j] : j \in 1..Len(doms)}] :
        \A j \in 1..Len(doms) : r[j] \in doms[j]}

\* the frames with header cols, at most n rows, cells of column j in doms[j]
FramesOver(cols, doms, n) ==
    {[columns |-> cols, rows |-> rs] : rs \in SeqsUpTo(RowsOver(doms), n)}

\* nothing built, rendered, written or sent yet
NotStarted ==
    /\ scenarios_table = Unset /\ load_heading = Unset /\ load_table = Unset
    /\ top_slow_table = Unset /\ comp_heading = Unset /\ comp_table = Unset
    /\ observations = <<>>
    /\ html_body = Unset
    /\ out_file = <<>>
    /\ raised = ""
    /\ mpc = "idle"
    /\ attachments = <<>>
    /\ msg = NoMessage
    /\ smtp_log = <<>>

NoFrames ==
    /\ load_df = EmptyFrame /\ comp_df = EmptyFrame
    /\ slow_df = EmptyFrame /\ err_df = EmptyFrame

\* --- the whole pipeline, on small files ---
LoadWithVusers ==
    [columns |-> <<"RunID", "EndTime", "Total Vusers", ResponseTimeCol>>,
     rows |-> << <<"984", "2026-01-01", "3000", "2.0">>,
                 <<"1051", "2026-02-01", "3000", "3.5">> >>]

LoadWithDistribution ==
    [columns |-> <<"Script Name", "User distribution">>,
     rows |-> << <<"Login", "1000">>, <<"Total", "2000">> >>]

LoadWithNeither ==
    [columns |-> <<"Script Name", "Portal">>,
     rows |-> << <<"Login", "Member">> >>]

SmallSlow ==
    [columns |-> <<"Transaction Names", "Average (Sec)">>,
     rows |-> << <<"T1", "1.5">>, <<"T2", "2.0">> >>]

SmallComp ==
    [columns |-> <<"Transaction Names", "Average (Sec)_A", "Average (Sec)_B", "Deviation">>,
     rows |-> << <<"T1", "1.5", "2.0", "0.5">> >>]

Err500 ==
    [columns |-> <<"StatusCode", "Count">>, rows |-> << <<500, 3>>, <<422, 0>> >>]

ErrNone ==
    [columns |-> <<"StatusCode", "Count">>, rows |-> << <<404, 3>> >>]

FileChoices(f) ==
    CASE f = "load_test_results.csv" -> {LoadWithVusers, LoadWithDistribution, LoadWithNeither}
      [] f = "ComparisonReport.csv" -> {SmallComp}
      [] f = "TopSlowTransactions.csv" -> {SmallSlow}
      [] f = "ErrorDetails.csv" -> {Err500, ErrNone}

Init ==
    /\ NotStarted
    /\ NoFrames
    /\ pc = "makedirs"
    /\ files \in SUBSET (InputFileSet \cup {TEMPLATE_PATH})
    /\ env \in {[EnvUnset EXCEPT !["EXECUTED_USERS"] = u] : u \in {<<>>, <<"7,500">>}}
    /\ disk \in [InputFileSet -> UNION {FileChoices(f) : f \in InputFileSet} \cup {EmptyFrame}]
    /\ \A f \in InputFileSet :
         IF f \in files THEN disk[f] \in FileChoices(f) ELSE disk[f] = EmptyFrame

Spec == Init /\ [][Next]_vars

\* main() is a sequential program that runs each statement in turn until it
\* returns or raises
FairSpec == Spec /\ WF_vars(Next)

\* --- build_scenarios_table on load frames ---
ScriptCells == {"A", "B", "Total", "TOTAL"}

ScenarioFrames ==
    FramesOver(<<"Script Name", "Portal">>, <<ScriptCells, {"P1", "P2"}>>, MaxLoadRows)
    \cup FramesOver(<<"Portal", "Scenario">>, <<{"P1", "P2"}, ScriptCells>>, MaxLoadRows)
    \cup FramesOver(<<"script", "Script_Name">>, <<{"Total", "x"}, {"A", "total", NaN}>>,
                    MaxLoadRows)
    \cup FramesOver(<<"Portal">>, <<{"P1", "Total"}>>, MaxLoadRows)
    \cup FramesOver(<<"Other">>, <<{"x"}>>, MaxLoadRows)

\* main() stands right before the statement at, with the default configuration
Before(at) ==
    /\ NotStarted
    /\ pc = at
    /\ env = EnvUnset
    /\ files = InputFileSet \cup {TEMPLATE_PATH}
    /\ disk = [f \in InputFileSet |-> EmptyFrame]

InitScenarios ==
    /\ Before("scenarios")
    /\ load_df \in ScenarioFrames
    /\ comp_df = EmptyFrame /\ slow_df = EmptyFrame /\ err_df = EmptyFrame

NextScenarios == BuildScenarios

SpecScenarios == InitScenarios /\ [][NextScenarios]_vars

\* --- build_load_summary on load frames ---
TimeCells == {"2026-01-01", "2026-02-01", "2026-03-01", "bad"}

\* the frame with header cols and the EndTime cells times; the other cells
\* tell the rows apart
SummaryCell(c, i, times) ==
    CASE c \in {"EndTime", "End"} -> times[i]
      [] c \in {"RunID", "Run ID"} -> "98" \o ToString(i)
      [] c = "RunName" -> "run" \o ToString(i)
      [] c = "Total Vusers" -> ToString(i) \o "000"
      [] OTHER -> "x"

SummaryFrame(cols, times) ==
    [columns |-> cols,
     rows |-> [i \in 1..Len(times) |->
                 [j \in 1..Len(cols) |-> SummaryCell(cols[j], i, times)]]]

SummaryHeaders ==
    {<<"RunID", "RunName", "EndTime", "Total Vusers">>,
     <<"Run ID", "End", "Total Vusers">>,
     <<"RunName", "Total Vusers">>}

SummaryFrames ==
    {SummaryFrame(cols, times) :
        cols \in SummaryHeaders, times \in SeqsUpTo(TimeCells, MaxLoadRows)}

InitLoadSummary ==
    /\ Before("load_summary")
    /\ load_df \in SummaryFrames
    /\ comp_df = EmptyFrame /\ slow_df = EmptyFrame /\ err_df = EmptyFrame

NextLoadSummary == BuildLoadSummary

SpecLoadSummary == InitLoadSummary /\ [][NextLoadSummary]_vars

\* --- build_top_slow_table and build_comparison_tables on long frames ---
BigFrame(cols, n) ==
    [columns |-> cols,
     rows |-> [i \in 1..n |->
                 [j \in 1..Len(cols) |-> ToString(i) \o "/" \o ToString(j)]]]

SlowHeaders ==
    {<<"Transaction Names", "Average (Sec)", "90 Percent (Sec)">>,
     <<"99 Percent (Sec)", "Rank", "Transaction Names">>,
     <<"Rank">>}

CompHeaders ==
    {<<"Transaction Names", "Average (Sec)_A", "Average (Sec)_B", "Deviation">>,
     <<"Deviation %", "Rank", "Transaction Names">>,
     <<"Rank">>}

InitTop ==
    /\ Before("top_slow")
    /\ load_df = EmptyFrame /\ err_df = EmptyFrame
    /\ \E n \in 0..MaxBigRows :
         /\ slow_df \in {BigFrame(cols, n) : cols \in SlowHeaders}
         /\ comp_df \in {BigFrame(cols, n) : cols \in CompHeaders}

NextTop == BuildTopSlow \/ BuildComparison

SpecTop == InitTop /\ [][NextTop]_vars

\* --- df_to_html_table on arbitrary small frames ---
TableCells == {NaN, "x", "<b>", "a&b"}

TableFrames ==
    FramesOver(<<>>, <<>>, MaxTableRows)
    \cup FramesOver(<<"c1">>, <<TableCells>>, MaxTableRows)
    \cup FramesOver(<<"c1", "<b>">>, <<TableCells, TableCells>>, MaxTableRows)

\* the serializer applied to slow_df
Serialize ==
    /\ pc = "serialize"
    /\ top_slow_table' = df_to_html_table(slow_df, TRUE)
    /\ pc' = "serialized"
    /\ UNCHANGED <<env, files, disk, frameVars, scenarios_table, load_heading,
                   load_table, comp_heading, comp_table, observations, html_body,
                   out_file, raised, mailVars>>

InitHtml ==
    /\ Before("serialize")
    /\ load_df = EmptyFrame /\ comp_df = EmptyFrame /\ err_df = EmptyFrame
    /\ slow_df \in TableFrames

NextHtml == Serialize

SpecHtml == InitHtml /\ [][NextHtml]_vars

\* --- build_observations on load and error frames ---
RtCells == {"2.0", "3.5", "abc"}

ObsFrames ==
    FramesOver(<<"EndTime", ResponseTimeCol>>, <<TimeCells, RtCells>>, MaxLoadRows)
    \cup FramesOver(<<ResponseTimeCol, "End">>, <<RtCells, TimeCells>>, MaxLoadRows)
    \cup FramesOver(<<ResponseTimeCol>>, <<RtCells>>, MaxLoadRows)
    \cup FramesOver(<<"EndTime">>, <<TimeCells>>, MaxLoadRows)

ErrFrames ==
    FramesOver(<<"StatusCode", "Count">>, <<{500, 422, 404}, {0, 3}>>, MaxErrRows)
    \cup FramesOver(<<"StatusCode">>, <<{500}>>, MaxErrRows)

InitObs ==
    /\ Before("observations")
    /\ comp_df = EmptyFrame /\ slow_df = EmptyFrame
    /\ \/ load_df \in ObsFrames /\ err_df \in {EmptyFrame, Err500}
       \/ load_df \in {EmptyFrame, LoadWithVusers, LoadWithNeither} /\ err_df \in ErrFrames

NextObs == BuildObservations

SpecObs == InitObs /\ [][NextObs]_vars

\* --- send_email_html over configurations ---
MailEnvs ==
    {[EnvUnset EXCEPT !["SMTP_SERVER"] = server, !["SMTP_PORT"] = port,
                      !["SMTP_USERNAME"] = user, !["SMTP_PASSWORD"] = password,
                      !["EMAIL_TO"] = to, !["EMAIL_CC"] = cc] :
        server \in {<<>>, <<"">>, <<"smtp.example.org">>},
        port \in {<<>>, <<"2525">>, <<"abc">>},
        user \in {<<>>, <<"mailer">>},
        password \in {<<>>, <<"">>, <<"secret">>},
        to \in {<<>>, << <<" ">> >>, << <<"a@x.org">> >>, << <<"a@x.org", " b@y.org">> >>},
        cc \in {<<>>, << <<"c@z.org">> >>}}

InitSend ==
    /\ pc = "done"
    /\ env \in MailEnvs
    /\ files \in {{"report.csv"}}
    /\ disk = [f \in InputFileSet |-> EmptyFrame]
    /\ NoFrames
    /\ scenarios_table = Unset /\ load_heading = Unset /\ load_table = Unset
    /\ top_slow_table = Unset /\ comp_heading = Unset /\ comp_table = Unset
    /\ observations = <<>>
    /\ html_body = Literal("<html>report</html>")
    /\ out_file = <<>>
    /\ raised = ""
    /\ mpc = "start"
    /\ attachments \in {<<>>, <<"report.csv", "missing.csv">>}
    /\ msg = NoMessage
    /\ smtp_log = <<>>

SpecSend == InitSend /\ [][NextSend]_vars

(***************************************************************************)
(* Properties                                                              *)
(***************************************************************************)
\* the frame main() holds for an input file once the inputs are read
FrameRead(f) ==
    CASE f = "load_test_results.csv" -> load_df
      [] f = "ComparisonReport.csv" -> comp_df
      [] f = "TopSlowTransactions.csv" -> slow_df
      [] f = "ErrorDetails.csv" -> err_df

InputsRead == pc \notin {"makedirs", "read", "failed"}

\* the body rows of a fragment: those of its table, none for literal text
BodyRows(fragment) == IF fragment.kind = "table" THEN fragment.body ELSE <<>>

AbsentReadAsEmpty ==
    InputsRead =>
        \A f \in InputFileSet \ files :
            Len(FrameRead(f).columns) = 0 /\ Len(FrameRead(f).rows) = 0

NoFailureWithTemplate ==
    TEMPLATE_PATH \in files =>
        /\ pc # "failed"
        /\ raised = ""
        /\ pc = "done" => out_file = <<html_body>> /\ html_body # Unset

\* C1: whichever input files are absent, each absent file is read as the
\* dataset of zero rows and zero columns and no exception is raised; with
\* the template present main() never fails and every run reaches the state
\* in which the output file has been written.
C1_AbsentInputNeverHalts ==
    /\ [](AbsentReadAsEmpty /\ NoFailureWithTemplate)
    /\ (TEMPLATE_PATH \in files) ~> (pc = "done" /\ out_file # <<>>)

C1_Witness ==
    /\ pc = "done"
    /\ files = {TEMPLATE_PATH}
    /\ out_file # <<>>
    /\ load_df = EmptyFrame /\ err_df = EmptyFrame

\* the executed-user count of the configuration: the EXECUTED_USERS
\* variable of the environment, "5,000" when it is not set
ConfiguredUsers ==
    IF env["EXECUTED_USERS"] = <<>> THEN "5,000" ELSE env["EXECUTED_USERS"][1]

DetectorNumber(v) ==
    CASE v = "1000" -> 1000
      [] v = "2000" -> 2000
      [] v = "3000" -> 3000
      [] OTHER -> 0

FormatThousands(n) ==
    CASE n = 3000 -> "3,000"
      [] n = 5000 -> "5,000"
      [] OTHER -> ToString(n)

RECURSIVE SumColumn(_, _, _)
SumColumn(df, c, r) ==
    IF r = 0 THEN 0 ELSE SumColumn(df, c, r - 1) + DetectorNumber(Cell(df, r, c))

\* the row of the most recent run: none has a later EndTime
MostRecentRow(df) ==
    CHOOSE i \in 1..Len(df.rows) :
        \A k \in 1..Len(df.rows) :
            TsOrd(to_datetime(Cell(df, k, "EndTime"))) <= TsOrd(to_datetime(Cell(df, i, "EndTime")))

\* the executed-user count a detector with the preference order (a) Total
\* Vusers of the most recent run, (b) sum of User distribution, (c) fixed
\* fallback (the configured value) would report
DetectedUsers(df) ==
    IF HasCol(df, "Total Vusers") /\ HasCol(df, "EndTime") /\ Len(df.rows) > 0
    THEN FormatThousands(DetectorNumber(Cell(df, MostRecentRow(df), "Total Vusers")))
    ELSE IF HasCol(df, "User distribution") /\ Len(df.rows) > 0
    THEN FormatThousands(SumColumn(df, "User distribution", Len(df.rows)))
    ELSE ConfiguredUsers

\* C10 as claimed: the executed-user count written into the report is the
\* one detected from the load dataset by the preference order.
C10_DetectedFromLoad ==
    pc = "done" => out_file[1].executed_users = DetectedUsers(load_df)

\* C10 as amended: the executed-user count bound into the report and
\* interpolated into the error observation is the configured
\* EXECUTED_USERS value ("5,000" by default), whatever the load dataset.
C10_ConfiguredValue ==
    /\ pc \in {"write", "done"} => html_body.executed_users = ConfiguredUsers
    /\ pc = "done" => out_file[1].executed_users = ConfiguredUsers
    /\ (pc \in {"render", "write", "done"} /\ err_df = Err500) =>
         \E k \in 1..Len(observations) :
            observations[k].text = "During the " \o ConfiguredUsers
                \o " load test, we observed 3 (500) and 0 (422) errors."

C10_Witness ==
    /\ pc = "done"
    /\ load_df = LoadWithVusers
    /\ err_df = Err500
    /\ env["EXECUTED_USERS"] = <<"7,500">>
    /\ out_file[1].executed_users = "7,500"

\* the text of a cell in the HTML table
Rendered(v) == escape(IF v = NaN THEN "" ELSE v)

IsTotalName(v) == v \in {"total", "Total", "TOTAL"}

ScenarioColumns ==
    pick(load_df, ScriptAliases) \o pick(load_df, PortalAliases)
        \o pick(load_df, VolumeAliases) \o pick(load_df, UsersAliases)

\* C2: when a script-name column resolves, the body rows of the scenarios
\* table are the input rows (projected to the scenario columns) rearranged
\* by a permutation that puts every "total" row (any letter case) after
\* every other row and keeps the other rows in their input order.
C2_TotalLast ==
    (pc = "load_summary" /\ pick(load_df, ScriptAliases) # <<>>) =>
        LET n == Len(load_df.rows)
            script == pick(load_df, ScriptAliases)[1]
            isTotal(i) == IsTotalName(Cell(load_df, i, script))
            body == BodyRows(scenarios_table)
        IN /\ Len(body) = n
           /\ \E p \in Perms(n) :
                /\ \A k \in 1..n :
                     body[k] = [j \in 1..Len(ScenarioColumns) |->
                                  Rendered(Cell(load_df, p[k], ScenarioColumns[j]))]
                /\ \A a, b \in 1..n : a < b =>
                     /\ isTotal(p[a]) => isTotal(p[b])
                     /\ (~isTotal(p[a]) /\ ~isTotal(p[b])) => p[a] < p[b]

C2_Witness ==
    /\ pc = "load_summary"
    /\ load_df = [columns |-> <<"Portal", "Scenario">>,
                  rows |-> << <<"P1", "A">>, <<"P1", "TOTAL">>, <<"P2", "B">> >>]
    /\ BodyRows(scenarios_table) = << <<"A", "P1">>, <<"B", "P2">>, <<"TOTAL", "P1">> >>

\* the column of load_df that build_load_summary reads as c, <<>> if none
LoadColumn(c) ==
    SelectSeq(load_df.columns,
              LAMBDA x : x = c \/ (x \in DOMAIN LoadRenameMap /\ LoadRenameMap[x] = c))

\* the parsed EndTime of input row i
RowTime(i) == to_datetime(Cell(load_df, i, LoadColumn("EndTime")[1]))

SomeTimeParses ==
    /\ LoadColumn("EndTime") # <<>>
    /\ \E i \in 1..Len(load_df.rows) : RowTime(i) # NaT

\* the heading and the metrics table show input row i in slot 1 and input
\* row j in slot 2
SlotsShow(i, j) ==
    /\ load_heading.kind = "heading"
    /\ load_table.kind = "metrics"
    /\ load_table.rows[1].metric = "Total Vusers"
    /\ load_table.rows[1].v1 = Cell(load_df, i, "Total Vusers")
    /\ load_table.rows[1].v2 = Cell(load_df, j, "Total Vusers")
    /\ LoadColumn("RunID") # <<>> =>
         /\ load_heading.r1 = Cell(load_df, i, LoadColumn("RunID")[1])
         /\ load_heading.r2 = Cell(load_df, j, LoadColumn("RunID")[1])

\* C3: for a non-empty load dataset the two slots show the two rows of
\* latest parsed EndTime, the newer one in slot 1 (no other row has a
\* parsed EndTime later than a slot's); without an EndTime column, or with
\* no parseable EndTime, they show the first two rows in file order.
C3_TwoLatestNewerFirst ==
    (pc \in {"top_slow", "failed"} /\ ~empty(load_df)) =>
        LET n == Len(load_df.rows)
        IN \E i, j \in 1..n :
             /\ SlotsShow(i, j)
             /\ n >= 2 => i # j
             /\ IF SomeTimeParses
                THEN /\ RowTime(i) # NaT
                     /\ RowTime(j) # NaT => TsOrd(RowTime(i)) >= TsOrd(RowTime(j))
                     /\ \A k \in 1..n \ {i, j} :
                          RowTime(k) # NaT =>
                             /\ RowTime(j) # NaT
                             /\ TsOrd(RowTime(k)) <= TsOrd(RowTime(j))
                ELSE i = 1 /\ j = Min(2, n)

C3_Witness ==
    /\ pc = "top_slow"
    /\ load_df = SummaryFrame(<<"RunID", "RunName", "EndTime", "Total Vusers">>,
                              <<"2026-01-01", "2026-03-01", "2026-02-01">>)
    /\ load_heading.r1 = "982"
    /\ load_heading.r2 = "983"
    /\ load_table.rows[1].v1 = "2000"
    /\ load_table.rows[1].v2 = "3000"

\* C4: for a non-empty load dataset the load summary is built without an
\* error and always has two slots; a single-row dataset fills both slots
\* with that row: the same RunID, the same name-and-time line and the same
\* value in both columns of every metric row.
C4_SingleRunShownTwice ==
    (pc \in {"top_slow", "failed"} /\ ~empty(load_df)) =>
        /\ raised = ""
        /\ pc = "top_slow"
        /\ load_heading.kind = "heading"
        /\ load_table.kind = "metrics"
        /\ Len(load_table.rows) = Len(metric_order)
        /\ Len(load_df.rows) = 1 =>
             /\ SlotsShow(1, 1)
             /\ load_heading.line1 = load_heading.line2
             /\ \A k \in 1..Len(load_table.rows) :
                  load_table.rows[k].v1 = load_table.rows[k].v2

C4_Witness ==
    /\ pc = "top_slow"
    /\ Len(load_df.rows) = 1
    /\ load_heading.kind = "heading"
    /\ load_heading.r1 = "981"
    /\ load_heading.r2 = "981"
    /\ load_table.rows[1].v1 = "1000"
    /\ load_table.rows[1].v2 = "1000"

\* the first min(n, 50) rows of df, projected to the columns of wanted that
\* df has, as table rows
FirstFifty(df, wanted) ==
    LET cols == Present(df, wanted)
    IN [i \in 1..Min(Len(df.rows), 50) |->
          [j \in 1..Len(cols) |-> Rendered(Cell(df, i, cols[j]))]]

\* C5: with at least one expected column present, the top-slow table and
\* the comparison table each hold exactly min(n, 50) body rows, the first
\* min(n, 50) input rows in file order.
C5_FirstFiftyRows ==
    /\ (pc \in {"comparison", "observations"} /\ Present(slow_df, SlowWanted) # <<>>) =>
          BodyRows(top_slow_table) = FirstFifty(slow_df, SlowWanted)
    /\ (pc = "observations" /\ Present(comp_df, CompExpected) # <<>>) =>
          BodyRows(comp_table) = FirstFifty(comp_df, CompExpected)

C5_Witness ==
    /\ pc = "observations"
    /\ Len(slow_df.rows) > 50
    /\ Len(comp_df.rows) > 50
    /\ Len(BodyRows(top_slow_table)) = 50
    /\ Len(BodyRows(comp_table)) = 50
    /\ BodyRows(top_slow_table)[50][1] = "50/1"

\* C6: the serializer returns the fixed placeholder paragraph for a frame
\* without rows or without columns; otherwise a table with one body row per
\* row, one header cell per column, one cell per column in every body row,
\* and the empty string for every missing cell.
C6_SerializerShape ==
    pc = "serialized" =>
        IF Len(slow_df.rows) = 0 \/ Len(slow_df.columns) = 0
        THEN top_slow_table = Literal("<p><em>No data available.</em></p>")
        ELSE /\ top_slow_table.kind = "table"
             /\ Len(top_slow_table.body) = Len(slow_df.rows)
             /\ Len(top_slow_table.head) = Len(slow_df.columns)
             /\ \A i \in 1..Len(slow_df.rows) :
                  /\ Len(top_slow_table.body[i]) = Len(slow_df.columns)
                  /\ \A j \in 1..Len(slow_df.columns) :
                       slow_df.rows[i][j] = NaN => top_slow_table.body[i][j] = ""

C6_Witness ==
    /\ pc = "serialized"
    /\ slow_df = [columns |-> <<"c1", "<b>">>, rows |-> << <<"x", NaN>>, <<NaN, "<b>">> >>]
    /\ top_slow_table.head = <<"c1", "&lt;b&gt;">>
    /\ top_slow_table.body = << <<"x", "">>, <<"", "&lt;b&gt;">> >>

\* the column of load_df that build_observations reads as EndTime
ObsTimeColumn == SelectSeq(load_df.columns, LAMBDA x : x \in {"EndTime", "End"})

ObsTime(i) == to_datetime(Cell(load_df, i, ObsTimeColumn[1]))

\* the response time of input row i, <<>> when missing or no number
ObsResponseTime(i) ==
    IF HasCol(load_df, ResponseTimeCol) THEN to_numeric(Cell(load_df, i, ResponseTimeCol))
    ELSE <<>>

\* rows i and j are the two most recent by EndTime, i the newer: no other
\* row has a parsed EndTime later than either, and rows whose EndTime does
\* not parse come after those whose EndTime does, in file order
TwoMostRecent(i, j) ==
    /\ i # j
    /\ ObsTime(j) # NaT => (ObsTime(i) # NaT /\ TsOrd(ObsTime(i)) >= TsOrd(ObsTime(j)))
    /\ (ObsTime(i) = NaT /\ ObsTime(j) = NaT) => i < j
    /\ \A k \in 1..Len(load_df.rows) \ {i, j} :
         IF ObsTime(k) # NaT
         THEN ObsTime(j) # NaT /\ TsOrd(ObsTime(k)) <= TsOrd(ObsTime(j))
         ELSE ObsTime(j) = NaT => j < k

Degrades(i, j) ==
    /\ ObsResponseTime(i) # <<>>
    /\ ObsResponseTime(j) # <<>>
    /\ ObsResponseTime(i)[1] > ObsResponseTime(j)[1]

DegradationEmitted == \E k \in 1..Len(observations) : observations[k] = DegradedSentence

\* the two Run Records of a report: the two most recent by EndTime, or the
\* first two rows in file order when there is no EndTime column
RunRecordPair(i, j) ==
    IF ObsTimeColumn = <<>> THEN i = 1 /\ j = 2 ELSE TwoMostRecent(i, j)

\* C7 as claimed: the degradation sentence is emitted exactly when the
\* load dataset has at least two Run Records and the newer of the two
\* selected Run Records has a response time that is a number strictly
\* greater than the older one's.
C7_EmittedForAnyTwoRuns ==
    pc = "render" =>
        /\ DegradationEmitted =>
             \E i, j \in 1..Len(load_df.rows) : RunRecordPair(i, j) /\ Degrades(i, j)
        /\ ~DegradationEmitted =>
             \/ Len(load_df.rows) < 2
             \/ \E i, j \in 1..Len(load_df.rows) : RunRecordPair(i, j) /\ ~Degrades(i, j)

\* C7 as amended: the degradation sentence is emitted exactly when the
\* load dataset has an EndTime (or End) column and at least two rows and,
\* for the two most recent rows by EndTime (rows whose EndTime does not
\* parse rank last, in file order), the newer row's response time is a
\* number strictly greater than the older row's; in every other case no
\* sentence is emitted, and no error is raised in either case.
C7_DegradationIff ==
    pc \in {"render", "failed"} =>
        /\ pc = "render"
        /\ raised = ""
        /\ DegradationEmitted =>
             /\ ObsTimeColumn # <<>>
             /\ \E i, j \in 1..Len(load_df.rows) : TwoMostRecent(i, j) /\ Degrades(i, j)
        /\ ~DegradationEmitted =>
             \/ ObsTimeColumn = <<>>
             \/ Len(load_df.rows) < 2
             \/ \E i, j \in 1..Len(load_df.rows) : TwoMostRecent(i, j) /\ ~Degrades(i, j)

C7_Witness ==
    /\ pc = "render"
    /\ load_df = [columns |-> <<"EndTime", ResponseTimeCol>>,
                  rows |-> << <<"2026-01-01", "2.0">>, <<"2026-02-01", "3.5">> >>]
    /\ observations[1] = DegradedSentence

\* the sentences of the generator that contain the word "comparison"
MentionsComparison(o) == o.text = FallbackSentence.text

NothingDetected ==
    \A k \in 1..Len(observations) : observations[k].kind \notin {"degraded", "errors"}

\* C8 as claimed: the returned list always contains a sentence mentioning
\* "comparison".
C8_AlwaysMentionsComparison ==
    pc = "render" => \E k \in 1..Len(observations) : MentionsComparison(observations[k])

\* C8 as amended: the fallback sentence is appended exactly when the
\* degradation and error-rate checks produced no observation, so the
\* returned list is never empty; when either check produced one, the list
\* holds no fallback sentence.
C8_FallbackOnlyWhenNothingDetected ==
    pc = "render" =>
        /\ observations # <<>>
        /\ NothingDetected <=> observations = <<FallbackSentence>>
        /\ ~NothingDetected =>
             \A k \in 1..Len(observations) : ~MentionsComparison(observations[k])

C8_Witness ==
    /\ pc = "render"
    /\ err_df = Err500
    /\ Len(observations) = 2
    /\ observations[1] = DegradedSentence
    /\ observations[2].kind = "errors"

\* the configuration names a server, a user, a password and a recipient
RequiredPresent ==
    /\ \A n \in {"SMTP_SERVER", "SMTP_USERNAME", "SMTP_PASSWORD"} :
          env[n] # <<>> /\ env[n] # <<"">>
    /\ env["EMAIL_TO"] # <<>>
    /\ \E k \in 1..Len(env["EMAIL_TO"][1]) : env["EMAIL_TO"][1][k] \notin {"", " "}

\* C9: a message is transmitted only as the fourth step of a session that
\* was opened, then encrypted, then authenticated, and only under a
\* configuration with every required value; with a required value absent
\* send ends in the error state with no session step taken; the error
\* state is final (no retry) and at most one message is transmitted.
C9_ValidateEncryptAuthenticateSend ==
    /\ \A k \in 1..Len(smtp_log) :
         smtp_log[k] = "sendmail" =>
            /\ k = 4
            /\ SubSeq(smtp_log, 1, 3) = <<"connect", "starttls", "login">>
            /\ RequiredPresent
    /\ \A k \in 1..Len(smtp_log) :
         smtp_log[k] = "login" => (k = 3 /\ smtp_log[2] = "starttls")
    /\ (~RequiredPresent /\ mpc # "start") =>
         /\ mpc = "error"
         /\ raised # ""
         /\ smtp_log = <<>>
    /\ mpc = "error" => ~ENABLED NextSend

C9_Witness ==
    /\ mpc = "done"
    /\ smtp_log = <<"connect", "starttls", "login", "sendmail", "quit">>
    /\ msg.To = <<"a@x.org", "b@y.org">>

====
